---- MODULE Spec2Model ----
(***************************************************************************)
(* Model of app.py (FPL mini-league forfeits dashboard): the last-place    *)
(* resolver compute_last_by_gw, the aggregator merge_overview and the      *)
(* SQLite override store (set_override / clear_override / load_overrides). *)
(***************************************************************************)
EXTENDS Integers, Sequences, FiniteSets, TLC

\* ------------------------------------------------------------ bounds
NumEntries == 2
MaxGw == 2
MaxPoints == 1
MaxRows == 2
MaxOverrides == 1

Entries == 1..NumEntries
Gws == 1..MaxGw
Points == 0..MaxPoints

\* ------------------------------------------------------------ values
\* Python None in the reason column / NaN left by a left merge.
NoReason == "None"
NaN == "NaN"
\* min_points is None or a number: None is {}, the number p is {p}.
NoMin == {}
\* SQL NULL in a TEXT column
SqlNull == "NULL"

\* CHECK(action IN ('none','skip','eject')) of the overrides table.
Actions == {"none", "skip", "eject"}
\* An action the CHECK constraint refuses.
BadAction == "bogus"
NoteTexts == {"", "n"}

VARIABLES
    pc,            \* "start" -> "resolved" (compute_last_by_gw returned) -> "merged"
                   \* (merge_overview returned); "store" while the override store is used
    gw_points_df,  \* set of rows [entry, event, gw_points], one per (entry, event)
    gw_from,
    gw_to,
    overrides,     \* dict event -> [action, note]
    last_df,       \* sequence of rows [event, min_points, last_entries, reason]
    entries_df,    \* sequence of member entry ids, one row per member
    forfeits_df,   \* rows (entry, forfeits) of the forfeits table, keyed by entry
    ov,            \* sequence of rows [entry, times_last, last_gws, forfeits]
    db_overrides,  \* rows [league_id, event, action, note] of the overrides table
    latest         \* history: per (league_id, event), what the last returned call left

vars == <<pc, gw_points_df, gw_from, gw_to, overrides, last_df, entries_df, forfeits_df, ov,
          db_overrides, latest>>

\* ------------------------------------------------------------ helpers
Min(S) == CHOOSE m \in S : \A x \in S : m <= x

RECURSIVE SortedSeq(_)
SortedSeq(S) ==
    IF S = {} THEN <<>> ELSE LET m == Min(S) IN <<m>> \o SortedSeq(S \ {m})

\* Python range(a, b)
Range(a, b) == [i \in 1..(b - a) |-> a + i - 1]

\* ------------------------------------------------------------ resolver
\* sub = gw_points_df[gw_points_df["event"] == gw]
SubOfGw(df, gw) == {r \in df : r.event = gw}

\* (mutant) an arbitrary tie-break: only the first of the tied entries
LastEntries_FirstOnly(sub, min_pts) ==
    <<Min({r.entry : r \in {x \in sub : x.gw_points = min_pts}})>>

\* sub[sub["gw_points"] == min_pts]["entry"].tolist(); build_gw_points appends the
\* rows entry by entry, taken here in ascending entry id
LastEntries(sub, min_pts) ==
    SortedSeq({r.entry : r \in {x \in sub : x.gw_points = min_pts}})

\* (mutant) the skip branch is missing: only eject clears the round
ApplyOverride_SkipIgnored(ovs, gw, last_entries) ==
    IF gw \in DOMAIN ovs /\ ovs[gw].action = "eject"
    THEN [last_entries |-> <<>>, reason |-> "ejected"]
    ELSE [last_entries |-> last_entries, reason |-> NoReason]

\* (mutant) an override of action 'none' clears the round like a skip
ApplyOverride_NoneSkips(ovs, gw, last_entries) ==
    IF gw \in DOMAIN ovs
    THEN (IF ovs[gw].action = "eject"
          THEN [last_entries |-> <<>>, reason |-> "ejected"]
          ELSE [last_entries |-> <<>>, reason |-> "skipped"])
    ELSE [last_entries |-> last_entries, reason |-> NoReason]

\* the override branch: (last_entries, reason) after the override of gw
ApplyOverride(ovs, gw, last_entries) ==
    IF gw \in DOMAIN ovs
    THEN LET act == ovs[gw].action IN
         IF act = "eject" THEN [last_entries |-> <<>>, reason |-> "ejected"]
         ELSE IF act = "skip" THEN [last_entries |-> <<>>, reason |-> "skipped"]
         ELSE [last_entries |-> last_entries, reason |-> NoReason]
    ELSE [last_entries |-> last_entries, reason |-> NoReason]

\* (mutant) the override is applied before the empty check
LastOfGw_OverrideFirst(df, gw, ovs) ==
    LET sub == SubOfGw(df, gw)
        o == ApplyOverride(ovs, gw, <<>>)
    IN
    IF sub = {}
    THEN [event |-> gw, min_points |-> NoMin, last_entries |-> <<>>,
          reason |-> IF o.reason = NoReason THEN "no-data" ELSE o.reason]
    ELSE LET min_pts == Min({r.gw_points : r \in sub})
             q == ApplyOverride(ovs, gw, LastEntries(sub, min_pts))
         IN [event |-> gw, min_points |-> {min_pts},
             last_entries |-> q.last_entries, reason |-> q.reason]

\* one iteration of the loop over range(gw_from, gw_to + 1): a round without rows
\* is "no-data" before any override is looked at
LastOfGw(df, gw, ovs) ==
    LET sub == SubOfGw(df, gw) IN
    IF sub = {}
    THEN [event |-> gw, min_points |-> NoMin, last_entries |-> <<>>, reason |-> "no-data"]
    ELSE LET min_pts == Min({r.gw_points : r \in sub})
             o == ApplyOverride(ovs, gw, LastEntries(sub, min_pts))
         IN [event |-> gw, min_points |-> {min_pts},
             last_entries |-> o.last_entries, reason |-> o.reason]

\* (mutant) range(gw_from, gw_to): the last round is left out
compute_last_by_gw_ExclusiveEnd(df, from, to, ovs) ==
    LET gws == Range(from, to) IN
    [i \in DOMAIN gws |-> LastOfGw(df, gws[i], ovs)]

compute_last_by_gw(df, from, to, ovs) ==
    LET gws == Range(from, to + 1) IN
    [i \in DOMAIN gws |-> LastOfGw(df, gws[i], ovs)]

\* ------------------------------------------------------------ inputs
ScoreRows == [entry : Entries, event : Gws, gw_points : Points]

\* build_gw_points: one row per (entry, event) of the fetched histories
\* (the script stops before the resolver when the table is empty)
ScoreCells == {c \in SUBSET (Entries \X Gws) : c # {} /\ Cardinality(c) <= MaxRows}

ScoreTables ==
    UNION {{ {[entry |-> c[1], event |-> c[2], gw_points |-> f[c]] : c \in cells} :
                f \in [cells -> Points]} : cells \in ScoreCells}

\* load_overrides: a dict keyed by event, one entry per stored row
OverrideMaps(acts, notes) ==
    UNION {[D -> [action : acts, note : notes]] :
              D \in {X \in SUBSET Gws : Cardinality(X) <= MaxOverrides}}

\* (gw_from, gw_to): a range of rounds, or the empty range just below gw_from
GwRanges == {r \in Gws \X (0..MaxGw) : r[2] >= r[1] - 1}

InitResolver(acts) ==
    /\ pc = "start"
    /\ gw_points_df \in ScoreTables
    /\ \E r \in GwRanges : gw_from = r[1] /\ gw_to = r[2]
    /\ overrides \in OverrideMaps(acts, NoteTexts)
    /\ last_df = <<>>
    /\ entries_df = <<>>
    /\ forfeits_df = <<>>
    /\ ov = <<>>
    /\ db_overrides = {}
    /\ latest = <<>>

Init == InitResolver(Actions)

ComputeLastByGw ==
    /\ pc = "start"
    /\ last_df' = compute_last_by_gw(gw_points_df, gw_from, gw_to, overrides)
    /\ pc' = "resolved"
    /\ UNCHANGED <<gw_points_df, gw_from, gw_to, overrides, entries_df, forfeits_df, ov,
                   db_overrides, latest>>

Next == ComputeLastByGw

Spec == Init /\ [][Next]_vars

\* ------------------------------------------------------------ aggregator
\* row.get("reason") in ("ejected", "skipped", "no-data") -> continue
CountsTowardForfeit(reason) == reason \notin {"ejected", "skipped", "no-data"}

\* last_expanded: one (entry, event) pair per entry of each counted row
RECURSIVE LastExpanded(_)
LastExpanded(ldf) ==
    IF ldf = <<>> THEN <<>>
    ELSE LET row == Head(ldf) IN
         (IF CountsTowardForfeit(row.reason)
          THEN [i \in DOMAIN row.last_entries |->
                   [entry |-> row.last_entries[i], event |-> row.event]]
          ELSE <<>>) \o LastExpanded(Tail(ldf))

\* the "event" values of the group of entry e, in row order
GroupEvents(last_map, e) ==
    LET OfEntry(x) == x.entry = e
        grp == SelectSeq(last_map, OfEntry)
    IN [i \in DOMAIN grp |-> grp[i].event]

\* sorted(s.tolist())
RECURSIVE SortedList(_)
SortedList(s) ==
    IF s = <<>> THEN <<>>
    ELSE LET m == Min({s[i] : i \in DOMAIN s})
             k == CHOOSE i \in DOMAIN s : s[i] = m
         IN <<m>> \o SortedList([i \in 1..(Len(s) - 1) |-> IF i < k THEN s[i] ELSE s[i + 1]])

\* (mutant) a flag instead of a count
TimesLast_Flag(last_map, e) == IF GroupEvents(last_map, e) = <<>> THEN 0 ELSE 1

\* groupby("entry")["event"].count(), left-merged, fillna(0)
TimesLast(last_map, e) == Len(GroupEvents(last_map, e))

\* groupby("entry")["event"].apply(sorted), left-merged, non-lists replaced by []
LastGws(last_map, e) == SortedList(GroupEvents(last_map, e))

\* the forfeits column: left merge on a non-empty notes table, "" otherwise
Forfeits(ffs, e) ==
    IF DOMAIN ffs # {}
    THEN (IF e \in DOMAIN ffs THEN ffs[e] ELSE NaN)
    ELSE ""

\* (mutant) inner merges: members that were never last lose their row
merge_overview_Inner(edf, ldf, ffs) ==
    LET last_map == LastExpanded(ldf)
        WasLast(e) == GroupEvents(last_map, e) # <<>>
        kept == SelectSeq(edf, WasLast)
    IN
    [i \in DOMAIN kept |->
        [entry |-> kept[i],
         times_last |-> TimesLast(last_map, kept[i]),
         last_gws |-> LastGws(last_map, kept[i]),
         forfeits |-> Forfeits(ffs, kept[i])]]

merge_overview(edf, ldf, ffs) ==
    LET last_map == LastExpanded(ldf) IN
    [i \in DOMAIN edf |->
        [entry |-> edf[i],
         times_last |-> TimesLast(last_map, edf[i]),
         last_gws |-> LastGws(last_map, edf[i]),
         forfeits |-> Forfeits(ffs, edf[i])]]

\* get_all_entries: the league's members, each once
\* (the script stops before the aggregator when there is none)
MemberLists == {SortedSeq(S) : S \in (SUBSET Entries) \ {{}}}

\* load_forfeits: the stored notes, keyed by entry
ForfeitMaps == UNION {[D -> NoteTexts] : D \in SUBSET Entries}

\* the tables compute_last_by_gw returns
ResolverOutputs ==
    {compute_last_by_gw(df, r[1], r[2], ovs) :
        df \in ScoreTables, r \in GwRanges, ovs \in OverrideMaps(Actions, {""})}

InitOverview ==
    /\ pc = "resolved"
    /\ last_df \in ResolverOutputs
    /\ entries_df \in MemberLists
    /\ forfeits_df \in ForfeitMaps
    /\ ov = <<>>
    /\ gw_points_df = {}
    /\ gw_from = 1
    /\ gw_to = 0
    /\ overrides = <<>>
    /\ db_overrides = {}
    /\ latest = <<>>

MergeOverview ==
    /\ pc = "resolved"
    /\ ov' = merge_overview(entries_df, last_df, forfeits_df)
    /\ pc' = "merged"
    /\ UNCHANGED <<gw_points_df, gw_from, gw_to, overrides, last_df, entries_df, forfeits_df,
                   db_overrides, latest>>

NextOverview == MergeOverview

SpecOverview == InitOverview /\ [][NextOverview]_vars

\* ------------------------------------------------------------ override store
\* The overrides table without its updated_at column, which no query reads.
DEFAULT_LEAGUE_ID == 1415574
Leagues == {DEFAULT_LEAGUE_ID, DEFAULT_LEAGUE_ID + 1}

\* CHECK(action IN ('none','skip','eject')): a row that fails it is never written
CheckAction(action) == action \in Actions

\* PRIMARY KEY (league_id, event)
SameKey(r, league_id, event) == r.league_id = league_id /\ r.event = event

\* (mutant) INSERT OR IGNORE: an existing row of the key is kept
InsertOrIgnore(tbl, league_id, event, action, note) ==
    IF \E r \in tbl : SameKey(r, league_id, event)
    THEN tbl
    ELSE tbl \cup {[league_id |-> league_id, event |-> event, action |-> action, note |-> note]}

\* INSERT OR REPLACE INTO overrides (league_id, event, action, note)
InsertOrReplace(tbl, league_id, event, action, note) ==
    {r \in tbl : ~SameKey(r, league_id, event)}
        \cup {[league_id |-> league_id, event |-> event, action |-> action, note |-> note]}

\* DELETE FROM overrides WHERE league_id = ? AND event = ?
DeleteRow(tbl, league_id, event) == {r \in tbl : ~SameKey(r, league_id, event)}

\* (r.note or ""): a NULL note and an empty note both load as ""
NoteOrEmpty(note) == IF note \in {SqlNull, ""} THEN "" ELSE note

\* SELECT event, action, note FROM overrides WHERE league_id = ?, as a dict by event
load_overrides(tbl, league_id) ==
    LET rows == {r \in tbl : r.league_id = league_id} IN
    [e \in {r.event : r \in rows} |->
        LET r == CHOOSE x \in rows : x.event = e IN
        [action |-> r.action, note |-> NoteOrEmpty(r.note)]]

Keys == Leagues \X Gws
Absent == [op |-> "absent", action |-> "", note |-> ""]

InitStore ==
    /\ pc = "store"
    /\ db_overrides = {}
    /\ latest = [k \in Keys |-> Absent]
    /\ gw_points_df = {}
    /\ gw_from = 1
    /\ gw_to = 0
    /\ overrides = <<>>
    /\ last_df = <<>>
    /\ entries_df = <<>>
    /\ forfeits_df = <<>>
    /\ ov = <<>>

UnchangedPipeline ==
    UNCHANGED <<pc, gw_points_df, gw_from, gw_to, overrides, last_df, entries_df, forfeits_df, ov>>

\* set_override(conn, league_id, event, action, note): raises, writing nothing, on
\* an action the CHECK constraint refuses
SetOverride ==
    \E league_id \in Leagues, event \in Gws, action \in Actions \cup {BadAction},
       note \in NoteTexts :
        /\ pc = "store"
        /\ CheckAction(action)
        /\ db_overrides' = InsertOrReplace(db_overrides, league_id, event, action, note)
        /\ latest' = [latest EXCEPT ![<<league_id, event>>] =
                          [op |-> "set", action |-> action, note |-> note]]
        /\ UnchangedPipeline

\* clear_override(conn, league_id, event)
ClearOverride ==
    \E league_id \in Leagues, event \in Gws :
        /\ pc = "store"
        /\ db_overrides' = DeleteRow(db_overrides, league_id, event)
        /\ latest' = [latest EXCEPT ![<<league_id, event>>] = Absent]
        /\ UnchangedPipeline

NextStore == SetOverride \/ ClearOverride

SpecStore == InitStore /\ [][NextStore]_vars

\* The same call on override maps that may carry an action outside the CHECK set.
InitAnyAction == InitResolver(Actions \cup {BadAction})

SpecAnyAction == InitAnyAction /\ [][Next]_vars

\* ------------------------------------------------------------ resolver claims
InRange(g) == gw_from <= g /\ g <= gw_to
HasResult(g) == (g - gw_from + 1) \in DOMAIN last_df
ResultOf(g) == last_df[g - gw_from + 1]
RowsOf(g) == {r \in gw_points_df : r.event = g}
PointsOf(g) == {r.gw_points : r \in RowsOf(g)}
Forced(g) == g \in DOMAIN overrides /\ overrides[g].action \in {"skip", "eject"}
SeqSet(s) == {s[i] : i \in DOMAIN s}

\* C1: for every round of the range with at least one score row, min_points is the
\* least gw_points of the round (override or not) and, unless the round carries a
\* skip/eject override, last_entries holds exactly the entries scoring that minimum,
\* each once: all tied lowest scorers, nobody with a higher score.
C1_MinAndAllTied ==
    pc = "resolved" =>
        \A g \in Gws : (InRange(g) /\ RowsOf(g) # {}) =>
            /\ HasResult(g)
            /\ \E p \in PointsOf(g) :
                  /\ \A q \in PointsOf(g) : p <= q
                  /\ ResultOf(g).min_points = {p}
                  /\ ~Forced(g) =>
                        /\ SeqSet(ResultOf(g).last_entries)
                             = {r.entry : r \in {x \in RowsOf(g) : x.gw_points = p}}
                        /\ Len(ResultOf(g).last_entries)
                             = Cardinality(SeqSet(ResultOf(g).last_entries))

\* a resolved round in which two entries tie for last and both are reported
C1_Witness ==
    /\ pc = "resolved"
    /\ \E g \in Gws :
          /\ InRange(g) /\ ~Forced(g)
          /\ Cardinality(RowsOf(g)) = 2 /\ Cardinality(PointsOf(g)) = 1
          /\ Len(ResultOf(g).last_entries) = 2

\* C2 as stated: a skip/eject override on a round of the range always gives empty
\* last_entries and the matching reason, whatever score rows (if any) the round has.
C2_OverrideAlwaysWins ==
    pc = "resolved" =>
        \A g \in Gws : (InRange(g) /\ Forced(g)) =>
            /\ HasResult(g)
            /\ ResultOf(g).last_entries = <<>>
            /\ ResultOf(g).reason =
                  (IF overrides[g].action = "eject" THEN "ejected" ELSE "skipped")

\* C2 amended: a skip/eject override on a round of the range always gives empty
\* last_entries; the reason is the matching one when the round has at least one
\* score row, and stays "no-data" when it has none.
C2_OverrideWinsOverScores ==
    pc = "resolved" =>
        \A g \in Gws : (InRange(g) /\ Forced(g)) =>
            /\ HasResult(g)
            /\ ResultOf(g).last_entries = <<>>
            /\ ResultOf(g).reason =
                  (IF RowsOf(g) = {} THEN "no-data"
                   ELSE IF overrides[g].action = "eject" THEN "ejected" ELSE "skipped")

\* a resolved round that has scores and an eject override
C2_Witness ==
    /\ pc = "resolved"
    /\ \E g \in Gws :
          /\ InRange(g) /\ RowsOf(g) # {}
          /\ g \in DOMAIN overrides /\ overrides[g].action = "eject"
          /\ ResultOf(g).reason = "ejected"

\* C3: every round of the range without score rows resolves to reason "no-data",
\* min_points None and empty last_entries, whatever the override map says.
C3_NoData ==
    pc = "resolved" =>
        \A g \in Gws : (InRange(g) /\ RowsOf(g) = {}) =>
            /\ HasResult(g)
            /\ ResultOf(g).reason = "no-data"
            /\ ResultOf(g).min_points = NoMin
            /\ ResultOf(g).last_entries = <<>>

\* a resolved round without scores that carries a skip/eject override
C3_Witness ==
    /\ pc = "resolved"
    /\ \E g \in Gws : InRange(g) /\ RowsOf(g) = {} /\ Forced(g) /\ HasResult(g)

\* the override map without its entries of action 'none'
WithoutNone(ovs) ==
    [g \in {x \in DOMAIN ovs : ovs[x].action # "none"} |-> ovs[g]]

\* C4: the result computed with the override map equals the result computed with
\* the map stripped of its 'none' entries, whatever their notes.
C4_NoneIsNoOp ==
    pc = "resolved" =>
        last_df = compute_last_by_gw(gw_points_df, gw_from, gw_to, WithoutNone(overrides))

\* a resolved round with scores and a 'none' override that carries a note
C4_Witness ==
    /\ pc = "resolved"
    /\ \E g \in Gws :
          /\ InRange(g) /\ RowsOf(g) # {}
          /\ g \in DOMAIN overrides
          /\ overrides[g].action = "none" /\ overrides[g].note = "n"
          /\ ResultOf(g).last_entries # <<>>

\* C5: the result has one row per round gw_from..gw_to, ascending, none missing or
\* repeated, and is empty when gw_from > gw_to.
C5_OneRowPerRound ==
    pc = "resolved" =>
        /\ Len(last_df) = (IF gw_from <= gw_to THEN gw_to - gw_from + 1 ELSE 0)
        /\ \A i \in DOMAIN last_df : last_df[i].event = gw_from + i - 1

\* a resolved range of at least two rounds
C5_Witness ==
    pc = "resolved" /\ gw_from < gw_to /\ Len(last_df) >= 2

\* the empty range
C5_EmptyRangeReached ==
    pc = "resolved" /\ gw_from > gw_to /\ last_df = <<>>

\* C9 as stated: an override whose action is outside {none, skip, eject} is
\* rejected: no normal result row is returned for its round.
C9_UnknownActionRejected ==
    pc = "resolved" =>
        \A g \in Gws :
            (InRange(g) /\ g \in DOMAIN overrides /\ overrides[g].action \notin Actions)
                => ~HasResult(g)

\* ------------------------------------------------------------ aggregator claims
RECURSIVE SumTimesLast(_)
SumTimesLast(rows) ==
    IF rows = <<>> THEN 0 ELSE Head(rows).times_last + SumTimesLast(Tail(rows))

Members == SeqSet(entries_df)

\* the (round, member) pairs of the rounds whose reason is None
CountedPairs ==
    {p \in (DOMAIN last_df) \X Entries :
        /\ last_df[p[1]].reason = NoReason
        /\ p[2] \in SeqSet(last_df[p[1]].last_entries)}

\* C6 as stated: the times_last of all output rows add up to the number of
\* (round, member) pairs of the rounds whose reason is None.
C6_Conservation ==
    pc = "merged" => SumTimesLast(ov) = Cardinality(CountedPairs)

\* C6 amended: the times_last of all output rows add up to the number of those
\* pairs whose member is in the member list; pairs of other entries are dropped.
C6_ConservationOverMembers ==
    pc = "merged" =>
        SumTimesLast(ov) = Cardinality({p \in CountedPairs : p[2] \in Members})

\* an overview in which a listed member was last and an unlisted entry was dropped
C6_Witness ==
    /\ pc = "merged"
    /\ SumTimesLast(ov) >= 1
    /\ \E p \in CountedPairs : p[2] \notin Members

\* the rounds of reason None whose last_entries hold entry e
CountedRoundsOf(e) ==
    {last_df[k].event : k \in {j \in DOMAIN last_df :
        /\ last_df[j].reason = NoReason
        /\ e \in SeqSet(last_df[j].last_entries)}}

\* C7: one output row per input member, in input order; times_last is the number of
\* rounds of reason None whose last_entries hold the member, last_gws the ascending
\* list of exactly those rounds (0 and the empty list for a member never last).
C7_OneRowPerMember ==
    pc = "merged" =>
        /\ Len(ov) = Len(entries_df)
        /\ \A i \in DOMAIN ov :
              /\ ov[i].entry = entries_df[i]
              /\ ov[i].times_last = Cardinality(CountedRoundsOf(entries_df[i]))
              /\ SeqSet(ov[i].last_gws) = CountedRoundsOf(entries_df[i])
              /\ \A a, b \in DOMAIN ov[i].last_gws :
                    a < b => ov[i].last_gws[a] < ov[i].last_gws[b]

\* an overview with a member last in two rounds and a member never last
C7_Witness ==
    /\ pc = "merged"
    /\ \E i \in DOMAIN ov : ov[i].times_last = 2 /\ Len(ov[i].last_gws) = 2
    /\ \E j \in DOMAIN ov : ov[j].times_last = 0 /\ ov[j].last_gws = <<>>
    /\ \E k \in DOMAIN last_df : last_df[k].reason = NoReason

\* C8 as stated: each member's forfeits is the stored note, and "" for a member
\* without a stored note, also when notes exist for other members only.
C8_NoteOrEmpty ==
    pc = "merged" =>
        \A i \in DOMAIN ov :
            ov[i].forfeits =
                (IF ov[i].entry \in DOMAIN forfeits_df THEN forfeits_df[ov[i].entry] ELSE "")

\* ------------------------------------------------------------ store claims
\* C10: after any sequence of set_override / clear_override calls, load_overrides of
\* a league holds, per round, exactly the (action, note) of the latest set_override
\* for that league and round unless a clear_override followed it, and nothing for a
\* round never set or since cleared; the table holds at most one row per key.
C10_LatestWins ==
    pc = "store" =>
        /\ \A r, q \in db_overrides :
              (r.league_id = q.league_id /\ r.event = q.event) => r = q
        /\ \A l \in Leagues :
              LET loaded == load_overrides(db_overrides, l) IN
              /\ DOMAIN loaded = {e \in Gws : latest[<<l, e>>].op = "set"}
              /\ \A e \in DOMAIN loaded :
                    /\ loaded[e].action = latest[<<l, e>>].action
                    /\ loaded[e].note = latest[<<l, e>>].note

\* a 'none' override stored over an earlier one, next to another round's skip and
\* with the other league's same round left without an override
C10_Witness ==
    /\ pc = "store"
    /\ \E l \in Leagues, m \in Leagues, e \in Gws, f \in Gws :
          /\ l # m /\ e # f
          /\ e \in DOMAIN load_overrides(db_overrides, l)
          /\ load_overrides(db_overrides, l)[e].action = "none"
          /\ f \in DOMAIN load_overrides(db_overrides, l)
          /\ load_overrides(db_overrides, l)[f].action = "skip"
          /\ e \notin DOMAIN load_overrides(db_overrides, m)

====
